---- MODULE Spec2Model ----
(***************************************************************************)
(* Model of src/streamlit_app.py: the Streamlit console of the Banking     *)
(* Transactions API.  The script is re-executed from its first line on     *)
(* every user interaction; pc is the position of that execution.  One      *)
(* dispatch (check_api_health, get_api_data, post_api_data) is two steps:  *)
(* the call of the HTTP library, which sends the request, and the end of   *)
(* the exchange followed by the rest of the function's body.               *)
(***************************************************************************)
EXTENDS Integers, Sequences, FiniteSets, TLC

VARIABLES
    pc,         \* position of the script run: "idle" between two runs
    run,        \* how the current/last run ended: running, done, stopped, exception
    menu,       \* the section chosen in the sidebar radio
    w,          \* widget values of the section (Streamlit session state)
    clicked,    \* the button whose click triggered this run, or "none"
    shown,      \* the buttons rendered so far by the current/last run
    call,       \* the dispatch being executed: function, call site, endpoint, parameters
    inflight,   \* HTTP requests sent and not yet resolved
    resp,       \* what the HTTP library handed back for the last request
    ret,        \* value returned by the last dispatch
    loc,        \* local variables of the script run
    sent,       \* call sites whose HTTP request was sent during this run
    msgs,       \* messages (st.error / st.success / st.warning) emitted since the last dispatch was entered
    backend,    \* whether the backend answers the request in flight: "answers" or "silent"
    jsonErrIsRequestException \* requests >= 2.27: a body that is not JSON raises a RequestException

vars == <<pc, run, menu, w, clicked, shown, call, inflight, resp, ret, loc, sent, msgs,
          backend, jsonErrIsRequestException>>

----------------------------------------------------------------------------
(* Bounds of the model *)

MaxPage == 2
MaxAmount == 1

(* Program constants *)

LARGE_SENTINEL == 999999999
HealthTimeout == 2

Pages == 1..MaxPage
Amounts == 0..MaxAmount

API_BASE_URL == <<"http://localhost:8000", "api">>

Menus == <<"Vue d'ensemble", "Transactions", "Statistiques", "Detection de Fraude",
           "Clients", "Recherche Avancee", "Test des Routes">>

ListingLimits == <<10, 25, 50, 100>>
FraudFilterLabels == <<"Toutes", "Frauduleuses", "Non frauduleuses">>
FraudSearchLabels == <<"Toutes", "Oui", "Non">>
PredictTypes == <<"PAYMENT", "TRANSFER", "CASH_OUT", "DEBIT", "CASH_IN">>

Range(s) == {s[i] : i \in DOMAIN s}

----------------------------------------------------------------------------
(* Filter composition *)

\* Listing parameters where a zero amount bound is sent like any other bound.
ComposeListingParamsZeroBound(page, limit, selected_type, fraud_filter, min_amount, max_amount) ==
    LET p0 == ("page" :> page) @@ ("limit" :> limit)
        p1 == IF selected_type # "Tous" THEN p0 @@ ("type" :> selected_type) ELSE p0
        p2 == IF fraud_filter = "Frauduleuses" THEN p1 @@ ("isFraud" :> 1)
              ELSE IF fraud_filter = "Non frauduleuses" THEN p1 @@ ("isFraud" :> 0)
              ELSE p1
        p3 == IF min_amount >= 0 THEN p2 @@ ("min_amount" :> min_amount) ELSE p2
    IN  IF max_amount > 0 THEN p3 @@ ("max_amount" :> max_amount) ELSE p3

\* params of the Transactions section
ComposeListingParams(page, limit, selected_type, fraud_filter, min_amount, max_amount) ==
    LET p0 == ("page" :> page) @@ ("limit" :> limit)
        p1 == IF selected_type # "Tous" THEN p0 @@ ("type" :> selected_type) ELSE p0
        p2 == IF fraud_filter = "Frauduleuses" THEN p1 @@ ("isFraud" :> 1)
              ELSE IF fraud_filter = "Non frauduleuses" THEN p1 @@ ("isFraud" :> 0)
              ELSE p1
        p3 == IF min_amount > 0 THEN p2 @@ ("min_amount" :> min_amount) ELSE p2
    IN  IF max_amount > 0 THEN p3 @@ ("max_amount" :> max_amount) ELSE p3

\* The amount range with the bounds taken literally (no sentinel for an unset maximum).
AmountRangeLiteral(amount_min_search, amount_max_search) ==
    <<amount_min_search, amount_max_search>>

\* value of search_data["amount_range"]
AmountRange(amount_min_search, amount_max_search) ==
    << IF amount_min_search > 0 THEN amount_min_search ELSE 0,
       IF amount_max_search > 0 THEN amount_max_search ELSE LARGE_SENTINEL >>

\* Search body with the amount bounds as the discrete keys of the listing parameters.
ComposeSearchBodyAsListing(search_type, fraud_search, amount_min_search, amount_max_search) ==
    LET s0 == <<>>
        s1 == IF search_type # "Tous" THEN s0 @@ ("type" :> search_type) ELSE s0
        s2 == IF fraud_search = "Oui" THEN s1 @@ ("isFraud" :> 1)
              ELSE IF fraud_search = "Non" THEN s1 @@ ("isFraud" :> 0)
              ELSE s1
        s3 == IF amount_min_search > 0 THEN s2 @@ ("min_amount" :> amount_min_search) ELSE s2
    IN  IF amount_max_search > 0 THEN s3 @@ ("max_amount" :> amount_max_search) ELSE s3

\* search_data of the Recherche Avancee section
ComposeSearchBody(search_type, fraud_search, amount_min_search, amount_max_search) ==
    LET s0 == <<>>
        s1 == IF search_type # "Tous" THEN s0 @@ ("type" :> search_type) ELSE s0
        s2 == IF fraud_search = "Oui" THEN s1 @@ ("isFraud" :> 1)
              ELSE IF fraud_search = "Non" THEN s1 @@ ("isFraud" :> 0)
              ELSE s1
    IN  IF amount_min_search > 0 \/ amount_max_search > 0
        THEN s2 @@ ("amount_range" :> AmountRange(amount_min_search, amount_max_search))
        ELSE s2

----------------------------------------------------------------------------
(* json.loads, on a text given as the sequence of its lexemes.  A run of     *)
(* characters that is no JSON lexeme is the lexeme "invalid".                *)

NumberLexemes == {"0", "1", "2", "3", "5"}
StringLexemes == {"\"page\"", "\"abc\"", "\"\""}
LiteralLexemes == {"true", "false", "null"}

\* A decoded JSON value: kind, the lexeme of a scalar, and the children of an array
\* (indexed 1..n) or of an object (indexed by key).
JsonValue(kind, lexeme, items) == [kind |-> kind, lexeme |-> lexeme, items |-> items]

JsonScalar(lexeme) ==
    JsonValue(IF lexeme \in NumberLexemes THEN "number"
              ELSE IF lexeme \in StringLexemes THEN "string"
              ELSE lexeme, lexeme, <<>>)

ParseFail == [ok |-> FALSE, next |-> 0, val |-> JsonValue("none", "", <<>>)]
Parsed(next, val) == [ok |-> TRUE, next |-> next, val |-> val]

\* dict assignment: a repeated key keeps the last value
PutKey(items, key, val) ==
    [k \in (DOMAIN items) \cup {key} |-> IF k = key THEN val ELSE items[k]]

RECURSIVE ParseValue(_, _), ParseElements(_, _, _), ParseMembers(_, _, _)

ParseValue(text, i) ==
    IF i > Len(text) THEN ParseFail
    ELSE IF text[i] \in NumberLexemes \cup StringLexemes \cup LiteralLexemes
         THEN Parsed(i + 1, JsonScalar(text[i]))
    ELSE IF text[i] = "["
         THEN IF i + 1 <= Len(text) /\ text[i + 1] = "]"
              THEN Parsed(i + 2, JsonValue("array", "", <<>>))
              ELSE ParseElements(text, i + 1, <<>>)
    ELSE IF text[i] = "{"
         THEN IF i + 1 <= Len(text) /\ text[i + 1] = "}"
              THEN Parsed(i + 2, JsonValue("object", "", <<>>))
              ELSE ParseMembers(text, i + 1, <<>>)
    ELSE ParseFail

ParseElements(text, i, acc) ==
    LET r == ParseValue(text, i) IN
    IF ~r.ok \/ r.next > Len(text) THEN ParseFail
    ELSE IF text[r.next] = "," THEN ParseElements(text, r.next + 1, Append(acc, r.val))
    ELSE IF text[r.next] = "]"
         THEN Parsed(r.next + 1, JsonValue("array", "", Append(acc, r.val)))
    ELSE ParseFail

ParseMembers(text, i, acc) ==
    IF i + 1 > Len(text) \/ text[i] \notin StringLexemes \/ text[i + 1] # ":" THEN ParseFail
    ELSE LET r == ParseValue(text, i + 2) IN
         IF ~r.ok \/ r.next > Len(text) THEN ParseFail
         ELSE IF text[r.next] = ","
              THEN ParseMembers(text, r.next + 1, PutKey(acc, text[i], r.val))
         ELSE IF text[r.next] = "}"
              THEN Parsed(r.next + 1, JsonValue("object", "", PutKey(acc, text[i], r.val)))
         ELSE ParseFail

\* json.loads(params_text): ok = FALSE stands for json.JSONDecodeError
JsonLoads(text) ==
    LET r == ParseValue(text, 1) IN
    IF r.ok /\ r.next = Len(text) + 1 THEN r ELSE ParseFail

\* Python truth value of a decoded JSON value
Truthy(v) ==
    CASE v.kind = "object" -> DOMAIN v.items # {}
      [] v.kind = "array"  -> DOMAIN v.items # {}
      [] v.kind = "string" -> v.lexeme # "\"\""
      [] v.kind = "number" -> v.lexeme # "0"
      [] v.kind = "true"   -> TRUE
      [] OTHER             -> FALSE

\* The texts the operator types into the parameter area of the route tester
ParamTexts ==
    { <<>>,
      <<"{", "invalid">>,
      <<"{", "}">>,
      <<"{", "\"page\"", ":", "1", "}">>,
      <<"{", "\"page\"", ":", "1", ",", "\"page\"", ":", "2", "}">>,
      <<"{", "\"abc\"", ":", "[", "1", "]", "}">>,
      <<"{", "\"page\"", ":", "1", ",", "}">>,
      <<"{", "}", "}">>,
      <<"[", "1", ",", "2", ",", "3", "]">>,
      <<"[", "]">>,
      <<"[", "[", "\"abc\"", ",", "1", "]", "]">>,
      <<"[", "1", ",">>,
      <<"null">>, <<"true">>, <<"false">>, <<"0">>, <<"5">>,
      <<"\"abc\"">>, <<"\"\"">>,
      <<"1", "2">> }

----------------------------------------------------------------------------
(* The backend and the HTTP library *)

Statuses == {200, 201, 304, 404, 500}

\* Response bodies: "ok" is JSON of the shape the call site expects, "odict" a non-empty
\* JSON object without the expected fields, "olist" another truthy JSON value that is no
\* object, "empty" a falsy JSON value other than null ({}, [], 0, false), "null" the
\* JSON null, "garbage" a body that is not JSON.
Bodies == {"ok", "odict", "olist", "empty", "null", "garbage"}

NoResp == [err |-> "none", status |-> 0, body |-> "none"]

\* What one HTTP exchange can end in: no connection, no answer in time, or a response
\* (the final one, after the redirects the library follows).  An error response
\* carries a JSON object or a body that is not JSON.
Outcomes ==
    {[err |-> e, status |-> 0, body |-> "none"] : e \in {"ConnectionError", "Timeout"}}
    \cup {[err |-> "none", status |-> st, body |-> b] :
            st \in {x \in Statuses : x < 400}, b \in Bodies}
    \cup {[err |-> "none", status |-> st, body |-> b] :
            st \in {x \in Statuses : x >= 400}, b \in {"odict", "garbage"}}

BackendTypes == <<"PAYMENT", "TRANSFER">>

\* Python values returned by the dispatch functions
PyNone == [tag |-> "None", body |-> "none"]
PyBool(b) == [tag |-> "bool", body |-> IF b THEN "true" ELSE "false"]
PyJson(body) == [tag |-> "json", body |-> body]

\* response.json(): the JSON null decodes to None
ResponseJson(body) == IF body = "null" THEN PyNone ELSE PyJson(body)

\* Python truth value of a returned value ("if result:")
RetTruthy(r) == r.tag = "json" /\ r.body \in {"ok", "odict", "olist"}

Msg(level, text, exc, status) == [level |-> level, text |-> text, exc |-> exc, status |-> status]

NoCall == [fn |-> "none", site |-> "none", endpoint |-> <<>>, params |-> <<>>,
           decoded |-> FALSE, timeout |-> 0]

\* get_api_data(endpoint, params) / post_api_data(endpoint, data) at a call site; decoded
\* tells that params is a value decoded by json.loads rather than a dict built by the script.
Invocation(fn, site, endpoint, params, decoded) ==
    [fn |-> fn, site |-> site, endpoint |-> endpoint, params |-> params,
     decoded |-> decoded, timeout |-> 0]

\* The probe called without a timeout.
HealthInvocationNoTimeout ==
    [fn |-> "health", site |-> "health", endpoint |-> <<"system", "health">>,
     params |-> <<>>, decoded |-> FALSE, timeout |-> 0]

\* check_api_health: GET system/health with timeout=2
HealthInvocation ==
    [fn |-> "health", site |-> "health", endpoint |-> <<"system", "health">>,
     params |-> <<>>, decoded |-> FALSE, timeout |-> HealthTimeout]

\* An item of a params list that requests can unpack into (key, value)
IsPair(v) == v.kind = "array" /\ Len(v.items) = 2

\* requests.get(url, params=v) for a decoded v: whether the query string can be built.
\* A mapping, None, a string, a list of pairs and a falsy scalar can; a list of other
\* items and a truthy number or boolean raise TypeError before anything is sent.
QueryEncodable(v) ==
    CASE v.kind \in {"object", "null", "string"} -> TRUE
      [] v.kind = "array" -> \A i \in DOMAIN v.items : IsPair(v.items[i])
      [] OTHER -> ~Truthy(v)

\* Whether the library call of an invocation gets as far as sending the request.
\* json=v serialises any decoded value; dicts built by the script are flat.
Sendable(c) == c.fn # "get" \/ ~c.decoded \/ QueryEncodable(c.params)

\* The request put on the wire: method, URL, payload, client-side timeout (0: none)
Request(c) ==
    [method |-> IF c.fn = "post" THEN "POST" ELSE "GET",
     url |-> API_BASE_URL \o c.endpoint,
     payload |-> c.params,
     timeout |-> c.timeout,
     site |-> c.site]

----------------------------------------------------------------------------
(* Route registry of the route tester *)

Route(name, method, endpoint) == [name |-> name, method |-> method, endpoint |-> endpoint]

RouteCategories == <<"Transactions", "Statistiques", "Fraude", "Clients", "Systeme">>

\* The registry with the same route id twice in the "Systeme" category.
RoutesDuplicateId(route_category) ==
    CASE route_category = "Transactions" ->
           << Route("GET /transactions", "GET", <<"transactions">>),
              Route("GET /transactions/{id}", "GET", <<"transactions", "0">>),
              Route("GET /transactions/types", "GET", <<"transactions", "types">>),
              Route("GET /transactions/recent", "GET", <<"transactions", "recent">>),
              Route("POST /transactions/search", "POST", <<"transactions", "search">>) >>
      [] route_category = "Statistiques" ->
           << Route("GET /stats/overview", "GET", <<"stats", "overview">>),
              Route("GET /stats/amount-distribution", "GET", <<"stats", "amount-distribution">>),
              Route("GET /stats/by-type", "GET", <<"stats", "by-type">>),
              Route("GET /stats/daily", "GET", <<"stats", "daily">>) >>
      [] route_category = "Fraude" ->
           << Route("GET /fraud/summary", "GET", <<"fraud", "summary">>),
              Route("GET /fraud/by-type", "GET", <<"fraud", "by-type">>),
              Route("POST /fraud/predict", "POST", <<"fraud", "predict">>) >>
      [] route_category = "Clients" ->
           << Route("GET /customers", "GET", <<"customers">>),
              Route("GET /customers/{id}", "GET", <<"customers", "C1231006815">>),
              Route("GET /customers/top", "GET", <<"customers", "top">>) >>
      [] OTHER ->
           << Route("GET /system/health", "GET", <<"system", "health">>),
              Route("GET /system/health", "GET", <<"system", "metadata">>) >>

\* Lines 759-794: the routes dict of a category, in the insertion order of its literal
Routes(route_category) ==
    CASE route_category = "Transactions" ->
           << Route("GET /transactions", "GET", <<"transactions">>),
              Route("GET /transactions/{id}", "GET", <<"transactions", "0">>),
              Route("GET /transactions/types", "GET", <<"transactions", "types">>),
              Route("GET /transactions/recent", "GET", <<"transactions", "recent">>),
              Route("POST /transactions/search", "POST", <<"transactions", "search">>) >>
      [] route_category = "Statistiques" ->
           << Route("GET /stats/overview", "GET", <<"stats", "overview">>),
              Route("GET /stats/amount-distribution", "GET", <<"stats", "amount-distribution">>),
              Route("GET /stats/by-type", "GET", <<"stats", "by-type">>),
              Route("GET /stats/daily", "GET", <<"stats", "daily">>) >>
      [] route_category = "Fraude" ->
           << Route("GET /fraud/summary", "GET", <<"fraud", "summary">>),
              Route("GET /fraud/by-type", "GET", <<"fraud", "by-type">>),
              Route("POST /fraud/predict", "POST", <<"fraud", "predict">>) >>
      [] route_category = "Clients" ->
           << Route("GET /customers", "GET", <<"customers">>),
              Route("GET /customers/{id}", "GET", <<"customers", "C1231006815">>),
              Route("GET /customers/top", "GET", <<"customers", "top">>) >>
      [] OTHER ->
           << Route("GET /system/health", "GET", <<"system", "health">>),
              Route("GET /system/metadata", "GET", <<"system", "metadata">>) >>

----------------------------------------------------------------------------
(* Widgets.  A widget that a run does not render loses its value, so only  *)
(* the widgets of the current section hold a value other than the default. *)

CustomersLimits == <<10, 25, 50>>
CustomerIds == {"", "C1231006815"}
SortBys == <<"volume", "count">>

DefaultWidgets ==
    [page |-> 1, limit |-> 10, type |-> "Tous", options |-> <<>>, fraud |-> 1,
     min |-> 0, max |-> 0, customer_id |-> "", sort_by |-> "volume",
     transaction_type |-> "PAYMENT", category |-> 1, route |-> 1,
     text |-> <<"{", "}">>]

\* The route selectbox lists the routes of the category
RouteAt(ws) == Routes(RouteCategories[ws.category])[ws.route]

\* The parameter area is one widget for GET routes and another for POST routes (their
\* labels differ): it starts again from its default when the method changes
WithRoute(cur, c, r) ==
    LET ws == [cur EXCEPT !.category = c, !.route = r] IN
    IF RouteAt(ws).method = RouteAt(cur).method THEN ws
    ELSE [ws EXCEPT !.text = DefaultWidgets.text]

\* The widget values after the operator changed one widget of section m, starting
\* from cur (every change of a widget is one interaction)
WidgetStates(m, cur) ==
    CASE m = "Transactions" ->
           {[cur EXCEPT !.page = p] : p \in Pages}
           \cup {[cur EXCEPT !.limit = l] : l \in Range(ListingLimits)}
           \cup {[cur EXCEPT !.type = t] : t \in Range(cur.options)}
           \cup {[cur EXCEPT !.fraud = f] : f \in DOMAIN FraudFilterLabels}
           \cup {[cur EXCEPT !.min = a] : a \in Amounts}
           \cup {[cur EXCEPT !.max = b] : b \in Amounts}
      [] m = "Detection de Fraude" ->
           {[cur EXCEPT !.transaction_type = t] : t \in Range(PredictTypes)}
      [] m = "Clients" ->
           {[cur EXCEPT !.page = p] : p \in Pages}
           \cup {[cur EXCEPT !.limit = l] : l \in Range(CustomersLimits)}
           \cup {[cur EXCEPT !.sort_by = sb] : sb \in Range(SortBys)}
           \cup {[cur EXCEPT !.customer_id = c] : c \in CustomerIds}
      [] m = "Recherche Avancee" ->
           {[cur EXCEPT !.type = t] : t \in Range(cur.options)}
           \cup {[cur EXCEPT !.fraud = f] : f \in DOMAIN FraudSearchLabels}
           \cup {[cur EXCEPT !.min = a] : a \in Amounts}
           \cup {[cur EXCEPT !.max = b] : b \in Amounts}
      [] m = "Test des Routes" ->
           {WithRoute(cur, c, 1) : c \in DOMAIN RouteCategories}
           \cup {WithRoute(cur, cur.category, r) :
                   r \in DOMAIN Routes(RouteCategories[cur.category])}
           \cup {[cur EXCEPT !.text = t] : t \in ParamTexts}
      [] OTHER -> {}

----------------------------------------------------------------------------
(* The script run *)

Undefined == "<undefined>"

InitLoc == [overview |-> PyNone, selected_type |-> Undefined, search_type |-> Undefined,
            built |-> "none", params |-> <<>>, routes |-> <<>>]

Init ==
    /\ pc = "start"
    /\ run = "running"
    /\ menu = Menus[1]
    /\ w = DefaultWidgets
    /\ clicked = "none"
    /\ shown = {}
    /\ call = NoCall
    /\ inflight = <<>>
    /\ resp = NoResp
    /\ ret = PyNone
    /\ loc = InitLoc
    /\ sent = <<>>
    /\ msgs = <<>>
    /\ backend = "answers"
    /\ jsonErrIsRequestException \in BOOLEAN

\* A new run of the script from its first line
Rerun ==
    /\ pc' = "start"
    /\ run' = "running"
    /\ shown' = {}
    /\ call' = NoCall
    /\ resp' = NoResp
    /\ ret' = PyNone
    /\ loc' = InitLoc
    /\ sent' = <<>>
    /\ msgs' = <<>>
    /\ UNCHANGED <<inflight, backend, jsonErrIsRequestException>>

\* The operator picks a section in the sidebar
SelectMenu(m) ==
    /\ pc = "idle"
    /\ m # menu
    /\ menu' = m
    /\ w' = DefaultWidgets
    /\ clicked' = "none"
    /\ Rerun

\* The operator changes widget values of the section
SetWidgets(ws) ==
    /\ pc = "idle"
    /\ ws # w
    /\ w' = ws
    /\ clicked' = "none"
    /\ UNCHANGED menu
    /\ Rerun

\* The operator clicks a button that the last run rendered
Click(b) ==
    /\ pc = "idle"
    /\ b \in shown
    /\ clicked' = b
    /\ UNCHANGED <<menu, w>>
    /\ Rerun

\* What the script does next: call a dispatch function, go on at a label, end at the
\* footer or at st.stop(), or end by an exception that nothing catches
CallNext(c) == [kind |-> "call", call |-> c, label |-> "call", how |-> "running", exc |-> ""]
GotoNext(label) ==
    [kind |-> "goto", call |-> call, label |-> label, how |-> "running", exc |-> ""]
EndNext(how) == [kind |-> "end", call |-> NoCall, label |-> "idle", how |-> how, exc |-> ""]

Footer == EndNext("done")
Unhandled(exc) ==
    [kind |-> "end", call |-> call, label |-> "idle", how |-> "exception", exc |-> exc]

\* One stretch of the script between two dispatches
ScriptStep(next, loc2, msgs2, shown2, w2) ==
    /\ pc' = next.label
    /\ run' = next.how
    /\ call' = next.call
    /\ loc' = loc2
    /\ msgs' = IF next.kind = "call" THEN <<>>
               ELSE IF next.how = "exception"
               THEN Append(msgs2, Msg("exception", "", next.exc, 0))
               ELSE msgs2
    /\ shown' = shown2
    /\ w' = w2
    /\ resp' = IF next.kind = "goto" \/ next.how = "exception" THEN resp ELSE NoResp
    /\ ret' = IF next.kind = "goto" \/ next.how = "exception" THEN ret ELSE PyNone
    /\ UNCHANGED <<menu, clicked, inflight, sent, backend, jsonErrIsRequestException>>

----------------------------------------------------------------------------
(* The dispatch functions *)

\* check_api_health without the comparison to 200: any 2xx status counts.
CheckApiHealthAny2xx(r) == r.err = "none" /\ r.status \in 200..299

\* check_api_health: True iff the health endpoint answered with status 200;
\* the bare except turns every exception into False.  The body is never read.
CheckApiHealth(r) == r.err = "none" /\ r.status = 200

Returned(value, messages) == [ret |-> value, msgs |-> messages, raised |-> "none"]
Raised(exc) == [ret |-> PyNone, msgs |-> <<>>, raised |-> exc]

\* get_api_data / post_api_data without response.raise_for_status().
ApiDataNoRaiseForStatus(r, jsonErrCaught) ==
    IF r.err # "none"
    THEN Returned(PyNone, <<Msg("error", "Erreur API", r.err, 0)>>)
    ELSE IF r.body = "garbage"
    THEN IF jsonErrCaught
         THEN Returned(PyNone, <<Msg("error", "Erreur API", "JSONDecodeError", 0)>>)
         ELSE Raised("JSONDecodeError")
    ELSE Returned(ResponseJson(r.body), <<>>)

\* get_api_data / post_api_data after the library handed back r: a RequestException
\* (no connection, timeout, HTTPError of raise_for_status for a 4xx/5xx status) is
\* reported with st.error and None is returned; otherwise the decoded body is returned.
\* A body that is not JSON raises a RequestException or, with older versions of the
\* library, a ValueError that leaves the function.
ApiData(r, jsonErrCaught) ==
    IF r.err # "none"
    THEN Returned(PyNone, <<Msg("error", "Erreur API", r.err, 0)>>)
    ELSE IF r.status \in 400..599
    THEN Returned(PyNone, <<Msg("error", "Erreur API", "HTTPError", r.status)>>)
    ELSE IF r.body = "garbage"
    THEN IF jsonErrCaught
         THEN Returned(PyNone, <<Msg("error", "Erreur API", "JSONDecodeError", 0)>>)
         ELSE Raised("JSONDecodeError")
    ELSE Returned(ResponseJson(r.body), <<>>)

\* The caller goes on without waiting for the answer.
NotBlocking == "ret"

\* requests.get / requests.post are synchronous: the caller waits for the answer
Blocking == "wait"

\* An exception leaves a dispatch function: the try of the route tester catches it
\* (json.JSONDecodeError as "JSON invalide", any other as "Erreur") and the script goes
\* on to its end; anywhere else it ends the run.
Propagate(exc) ==
    /\ pc' = "idle"
    /\ IF call.site = "tester"
       THEN /\ run' = "done"
            /\ msgs' = Append(msgs, Msg("error", IF exc = "JSONDecodeError"
                                                  THEN "JSON invalide" ELSE "Erreur", exc, 0))
       ELSE /\ run' = "exception"
            /\ msgs' = Append(msgs, Msg("exception", "", exc, 0))
    /\ UNCHANGED <<menu, w, clicked, shown, call, ret, loc, sent, backend,
                   jsonErrIsRequestException>>

\* The dispatch function calls the HTTP library, which sends the request; the backend
\* is one that answers it (or refuses the connection) or one that stays silent
RequestsSend ==
    /\ pc = "call"
    /\ IF Sendable(call)
       THEN /\ inflight' = Append(inflight, Request(call))
            /\ sent' = Append(sent, call.site)
            /\ pc' = Blocking
            /\ backend' \in {"answers", "silent"}
            /\ UNCHANGED <<run, menu, w, clicked, shown, call, resp, ret, loc, msgs,
                           jsonErrIsRequestException>>
       ELSE Propagate("TypeError") /\ UNCHANGED <<inflight, resp>>

\* How the exchange of request r can end.  The library raises Timeout only when the
\* call gave a timeout; when the backend stays silent nothing else can end it.
ExchangeOutcomes(r, b) ==
    {o \in Outcomes : /\ o.err = "Timeout" => r.timeout > 0
                      /\ b = "silent" => o.err = "Timeout"}

\* The exchange ends (the backend answers, or the connection fails or times out), the
\* library call returns or raises, and the rest of the dispatch function's body runs
DispatchReturns(o) ==
    /\ pc = "wait"
    /\ inflight # <<>>
    /\ o \in ExchangeOutcomes(inflight[1], backend)
    /\ inflight' = Tail(inflight)
    /\ resp' = o
    /\ backend' = "answers"
    /\ IF call.fn = "health"
       THEN /\ ret' = PyBool(CheckApiHealth(o))
            /\ pc' = "ret"
            /\ UNCHANGED <<run, menu, w, clicked, shown, call, loc, sent, msgs,
                           jsonErrIsRequestException>>
       ELSE LET d == ApiData(o, jsonErrIsRequestException) IN
            IF d.raised = "none"
            THEN /\ ret' = d.ret
                 /\ msgs' = msgs \o d.msgs
                 /\ pc' = "ret"
                 /\ UNCHANGED <<run, menu, w, clicked, shown, call, loc, sent,
                                jsonErrIsRequestException>>
            ELSE Propagate(d.raised)

----------------------------------------------------------------------------
(* The script, section by section.  Each operator gives the stretch of the  *)
(* script that follows the return of the dispatch at a call site.            *)

Step(next, loc2, msgs2, shown2, w2) ==
    [next |-> next, loc |-> loc2, msgs |-> msgs2, shown |-> shown2, w |-> w2]

Do(st) == ScriptStep(st.next, st.loc, st.msgs, st.shown, st.w)

Plain(next) == Step(next, loc, msgs, shown, w)
Showing(next, buttons) == Step(next, loc, msgs, shown \cup buttons, w)

Get(site, endpoint, params) == CallNext(Invocation("get", site, endpoint, params, FALSE))
Post(site, endpoint, data) == CallNext(Invocation("post", site, endpoint, data, FALSE))

\* Rendering code indexes the fields it expects: a truthy value of another shape raises
Crashes(r) == RetTruthy(r) /\ r.body # "ok"
\* Code that only calls .get() on the value raises on a truthy value that is no dict
GetCrashes(r) == RetTruthy(r) /\ r.body = "olist"

\* "Vue d'ensemble"
VueEntry == Plain(Get("vue:overview", <<"stats", "overview">>, <<>>))

VueAfter(site) ==
    CASE site = "vue:overview" ->
           Step(Get("vue:fraud_summary", <<"fraud", "summary">>, <<>>),
                [loc EXCEPT !.overview = ret], msgs, shown, w)
      [] site = "vue:fraud_summary" ->
           IF RetTruthy(loc.overview) /\ RetTruthy(ret)
           THEN IF Crashes(loc.overview) \/ Crashes(ret)
                THEN Plain(Unhandled("KeyError"))
                ELSE Plain(Get("vue:dist", <<"stats", "amount-distribution">>, <<>>))
           ELSE Plain(Footer)
      [] site = "vue:dist" ->
           IF Crashes(ret) THEN Plain(Unhandled("KeyError"))
           ELSE Plain(Get("vue:by_type", <<"stats", "by-type">>, <<>>))
      [] site = "vue:by_type" ->
           IF Crashes(ret) THEN Plain(Unhandled("KeyError"))
           ELSE Plain(Get("vue:fraud_by_type", <<"fraud", "by-type">>, <<>>))
      [] OTHER ->
           IF Crashes(ret) THEN Plain(Unhandled("KeyError")) ELSE Plain(Footer)

\* The type selectbox of the Transactions and Recherche Avancee forms, rendered only
\* when the types were fetched: the options, and the selection kept if still offered
TypeOptions(types_data) ==
    <<"Tous">> \o (IF types_data.body = "ok" THEN BackendTypes ELSE <<>>)

Selected(options, current) == IF current \in Range(options) THEN current ELSE options[1]

\* "Transactions"
TransactionsEntry == Plain(Get("tx:types", <<"transactions", "types">>, <<>>))

TransactionsAfter(site) ==
    CASE site = "tx:types" ->
           IF RetTruthy(ret)
           THEN IF GetCrashes(ret) THEN Plain(Unhandled("AttributeError"))
                ELSE LET sel == Selected(TypeOptions(ret), w.type) IN
                     Step(GotoNext("tx_params"), [loc EXCEPT !.selected_type = sel], msgs,
                          shown, [w EXCEPT !.options = TypeOptions(ret), !.type = sel])
           ELSE Step(GotoNext("tx_params"), loc, msgs, shown,
                     [w EXCEPT !.options = <<>>, !.type = "Tous"])
      [] site = "tx:list" ->
           IF Crashes(ret) THEN Plain(Unhandled("KeyError"))
           ELSE Showing(Footer, {"recent"})
      [] OTHER ->
           IF GetCrashes(ret) THEN Plain(Unhandled("AttributeError")) ELSE Plain(Footer)

\* Lines 246-306: params, then the two buttons.  selected_type is unbound when the
\* selectbox was not rendered, and reading it raises NameError.
TransactionsParams ==
    IF loc.selected_type = Undefined THEN Plain(Unhandled("NameError"))
    ELSE LET params == ComposeListingParams(w.page, w.limit, loc.selected_type,
                                            FraudFilterLabels[w.fraud], w.min, w.max)
             loc2 == [loc EXCEPT !.params = params, !.built = "params"]
         IN  IF clicked = "rechercher"
             THEN Step(Get("tx:list", <<"transactions">>, params), loc2, msgs,
                       shown \cup {"rechercher"}, w)
             ELSE IF clicked = "recent"
             THEN Step(Get("tx:recent", <<"transactions", "recent">>, [n |-> 10]), loc2,
                       msgs, shown \cup {"rechercher", "recent"}, w)
             ELSE Step(Footer, loc2, msgs, shown \cup {"rechercher", "recent"}, w)

\* "Statistiques": the three tabs are evaluated on every run
StatistiquesEntry == Plain(Get("stats:by_type", <<"stats", "by-type">>, <<>>))

StatistiquesAfter(site) ==
    IF Crashes(ret) THEN Plain(Unhandled("KeyError"))
    ELSE CASE site = "stats:by_type" -> Plain(Get("stats:daily", <<"stats", "daily">>, <<>>))
           [] site = "stats:daily" ->
                Plain(Get("stats:dist", <<"stats", "amount-distribution">>, <<>>))
           [] OTHER -> Plain(Footer)

\* "Detection de Fraude"; the number inputs keep their default values
PredictionData ==
    [type |-> w.transaction_type, amount |-> 1000, oldbalanceOrg |-> 5000,
     newbalanceOrig |-> 4000]

FraudeEntry == Plain(Get("fraud:summary", <<"fraud", "summary">>, <<>>))

FraudeAfter(site) ==
    IF Crashes(ret) THEN Plain(Unhandled("KeyError"))
    ELSE CASE site = "fraud:summary" ->
                IF clicked = "analyser"
                THEN Showing(Post("fraud:predict", <<"fraud", "predict">>, PredictionData),
                             {"analyser"})
                ELSE Showing(Get("fraud:by_type", <<"fraud", "by-type">>, <<>>), {"analyser"})
           [] site = "fraud:predict" ->
                Plain(Get("fraud:by_type", <<"fraud", "by-type">>, <<>>))
           [] OTHER -> Plain(Footer)

\* "Clients": three tabs, each behind a button; the two transaction buttons are
\* nested in the handler of the profile button
ClientsButtons == {"afficher", "top", "profil"}

ClientsEntry ==
    IF clicked = "afficher"
    THEN Showing(Get("cust:list", <<"customers">>, [page |-> w.page, limit |-> w.limit]),
                 {"afficher"})
    ELSE IF clicked = "top"
    THEN Showing(Get("cust:top", <<"customers", "top">>, [n |-> 10, by |-> w.sort_by]),
                 {"afficher", "top"})
    ELSE IF clicked = "profil"
    THEN IF w.customer_id # ""
         THEN Showing(Get("cust:profile", <<"customers", w.customer_id>>, <<>>), ClientsButtons)
         ELSE Step(Footer, loc, Append(msgs, Msg("warning", "Veuillez entrer un ID client", "", 0)),
                   shown \cup ClientsButtons, w)
    ELSE Showing(Footer, ClientsButtons)

ClientsAfter(site) ==
    IF Crashes(ret) THEN Plain(Unhandled("KeyError"))
    ELSE CASE site \in {"cust:list", "cust:top"} -> Showing(Footer, ClientsButtons)
           [] site = "cust:profile" ->
                IF ~RetTruthy(ret) THEN Plain(Footer)
                ELSE IF clicked = "emises"
                THEN Showing(Get("cust:by_customer",
                                 <<"transactions", "by-customer", w.customer_id>>, <<>>),
                             {"emises"})
                ELSE IF clicked = "recues"
                THEN Showing(Get("cust:to_customer",
                                 <<"transactions", "to-customer", w.customer_id>>, <<>>),
                             {"emises", "recues"})
                ELSE Showing(Footer, {"emises", "recues"})
           [] site = "cust:by_customer" -> Showing(Footer, {"recues"})
           [] OTHER -> Plain(Footer)

\* "Recherche Avancee"
RechercheEntry == Plain(Get("search:types", <<"transactions", "types">>, <<>>))

RechercheAfter(site) ==
    CASE site = "search:types" ->
           LET next == IF clicked = "lancer" THEN GotoNext("search_data") ELSE Footer IN
           IF RetTruthy(ret)
           THEN IF GetCrashes(ret) THEN Plain(Unhandled("AttributeError"))
                ELSE LET sel == Selected(TypeOptions(ret), w.type) IN
                     Step(next, [loc EXCEPT !.search_type = sel], msgs, shown \cup {"lancer"},
                          [w EXCEPT !.options = TypeOptions(ret), !.type = sel])
           ELSE Step(next, loc, msgs, shown \cup {"lancer"},
                     [w EXCEPT !.options = <<>>, !.type = "Tous"])
      [] OTHER ->
           IF Crashes(ret) THEN Plain(Unhandled("KeyError")) ELSE Plain(Footer)

\* Lines 694-710: search_data, then the POST.  search_type is unbound when the
\* selectbox was not rendered, and reading it raises NameError.
RechercheSearchData ==
    IF loc.search_type = Undefined THEN Plain(Unhandled("NameError"))
    ELSE LET search_data == ComposeSearchBody(loc.search_type, FraudSearchLabels[w.fraud],
                                              w.min, w.max)
         IN  Step(Post("search:run", <<"transactions", "search">>, search_data),
                  [loc EXCEPT !.params = search_data, !.built = "search_data"],
                  msgs, shown, w)

\* "Test des Routes": every run builds the routes dict of the chosen category anew
\* (lines 759-794) and looks the selected route up in it
RouteInfo == loc.routes[w.route]

TestEntry ==
    LET routes == Routes(RouteCategories[w.category]) IN
    Step(IF clicked = "tester" THEN GotoNext("decode") ELSE Footer,
         [loc EXCEPT !.routes = routes], msgs, shown \cup {"tester"}, w)

\* The handler with a decoding failure answered by empty parameters.
TestDecodeFallback ==
    LET decoded == JsonLoads(w.text)
        params == IF decoded.ok THEN decoded.val ELSE JsonValue("object", "", <<>>)
    IN  Plain(CallNext(Invocation(IF RouteInfo.method = "GET" THEN "get" ELSE "post",
                                  "tester", RouteInfo.endpoint, params, TRUE)))

\* The handler that sends every route through get_api_data.
TestDecodeAlwaysGet ==
    LET decoded == JsonLoads(w.text) IN
    IF ~decoded.ok
    THEN Step(Footer, loc, Append(msgs, Msg("error", "JSON invalide", "JSONDecodeError", 0)),
              shown, w)
    ELSE Plain(CallNext(Invocation("get", "tester", RouteInfo.endpoint, decoded.val, TRUE)))

\* Lines 819-825 and 836-837: json.loads, then the dispatch by the route's method
TestDecode ==
    LET decoded == JsonLoads(w.text) IN
    IF ~decoded.ok
    THEN Step(Footer, loc, Append(msgs, Msg("error", "JSON invalide", "JSONDecodeError", 0)),
              shown, w)
    ELSE Plain(CallNext(Invocation(IF RouteInfo.method = "GET" THEN "get" ELSE "post",
                                   "tester", RouteInfo.endpoint, decoded.val, TRUE)))

\* Lines 827-834
TestAfter ==
    IF RetTruthy(ret)
    THEN Step(Footer, loc, Append(msgs, Msg("success", "Requete reussie", "", 0)), shown, w)
    ELSE Plain(Footer)

----------------------------------------------------------------------------
(* Actions of the script run *)

SectionEntry ==
    CASE menu = "Vue d'ensemble" -> VueEntry
      [] menu = "Transactions" -> TransactionsEntry
      [] menu = "Statistiques" -> StatistiquesEntry
      [] menu = "Detection de Fraude" -> FraudeEntry
      [] menu = "Clients" -> ClientsEntry
      [] menu = "Recherche Avancee" -> RechercheEntry
      [] OTHER -> TestEntry

\* Line 77: the header calls check_api_health first
Header ==
    /\ pc = "start"
    /\ Do(Plain(CallNext(HealthInvocation)))

\* The header without st.stop(): the run goes on after a failed probe.
HeaderAfterHealthNoStop ==
    /\ pc = "ret"
    /\ call.site = "health"
    /\ Do(Step(Get("metadata", <<"system", "metadata">>, <<>>), loc,
               Append(msgs, IF ret = PyBool(TRUE)
                            THEN Msg("success", "API connectee", "", 0)
                            ELSE Msg("error", "API non accessible", "", 0)), shown, w))

\* Lines 77-85: st.stop() when the probe failed, else the metadata call
HeaderAfterHealth ==
    /\ pc = "ret"
    /\ call.site = "health"
    /\ Do(IF ret = PyBool(TRUE)
          THEN Step(Get("metadata", <<"system", "metadata">>, <<>>), loc,
                    Append(msgs, Msg("success", "API connectee", "", 0)), shown, w)
          ELSE Step(EndNext("stopped"), loc,
                    Append(msgs, Msg("error", "API non accessible", "", 0)), shown, w))

\* Lines 86-125: the version, the sidebar, then the chosen section
HeaderAfterMetadata ==
    /\ pc = "ret"
    /\ call.site = "metadata"
    /\ Do(IF GetCrashes(ret) THEN Plain(Unhandled("AttributeError")) ELSE SectionEntry)

VueDEnsemble ==
    /\ pc = "ret"
    /\ call.site \in {"vue:overview", "vue:fraud_summary", "vue:dist", "vue:by_type",
                      "vue:fraud_by_type"}
    /\ Do(VueAfter(call.site))

Transactions ==
    /\ pc = "ret"
    /\ call.site \in {"tx:types", "tx:list", "tx:recent"}
    /\ Do(TransactionsAfter(call.site))

TransactionsBuildParams ==
    /\ pc = "tx_params"
    /\ Do(TransactionsParams)

Statistiques ==
    /\ pc = "ret"
    /\ call.site \in {"stats:by_type", "stats:daily", "stats:dist"}
    /\ Do(StatistiquesAfter(call.site))

DetectionDeFraude ==
    /\ pc = "ret"
    /\ call.site \in {"fraud:summary", "fraud:predict", "fraud:by_type"}
    /\ Do(FraudeAfter(call.site))

Clients ==
    /\ pc = "ret"
    /\ call.site \in {"cust:list", "cust:top", "cust:profile", "cust:by_customer",
                      "cust:to_customer"}
    /\ Do(ClientsAfter(call.site))

RechercheAvancee ==
    /\ pc = "ret"
    /\ call.site \in {"search:types", "search:run"}
    /\ Do(RechercheAfter(call.site))

RechercheBuildSearchData ==
    /\ pc = "search_data"
    /\ Do(RechercheSearchData)

TestDesRoutes ==
    /\ pc = "decode"
    /\ Do(TestDecode)

TestDesRoutesResult ==
    /\ pc = "ret"
    /\ call.site = "tester"
    /\ Do(TestAfter)

Buttons == {"rechercher", "recent", "analyser", "afficher", "top", "profil", "emises",
            "recues", "lancer", "tester"}

Next ==
    \/ \E m \in Range(Menus) : SelectMenu(m)
    \/ \E ws \in WidgetStates(menu, w) : SetWidgets(ws)
    \/ \E b \in Buttons : Click(b)
    \/ Header
    \/ HeaderAfterHealth
    \/ HeaderAfterMetadata
    \/ RequestsSend
    \/ \E o \in Outcomes : DispatchReturns(o)
    \/ VueDEnsemble
    \/ Transactions
    \/ TransactionsBuildParams
    \/ Statistiques
    \/ DetectionDeFraude
    \/ Clients
    \/ RechercheAvancee
    \/ RechercheBuildSearchData
    \/ TestDesRoutes
    \/ TestDesRoutesResult

Spec == Init /\ [][Next]_vars

\* An exchange that can end does end: the backend that answers does so, and the timer
\* of a call with a timeout fires
LiveSpec == Spec /\ WF_vars(\E o \in Outcomes : DispatchReturns(o))

----------------------------------------------------------------------------
(* Properties *)

Keys(f) == DOMAIN f

\* A dispatch of get_api_data / post_api_data has just returned
ApiReturned == pc = "ret" /\ call.fn \in {"get", "post"}

\* The run handles a click on the button of the route tester
TesterClicked == menu = "Test des Routes" /\ clicked = "tester"

\* C1: the params of the Transactions section hold exactly page and limit, type iff
\* the selected type is not "Tous", isFraud = 1 / 0 iff the fraud filter is
\* "Frauduleuses" / "Non frauduleuses", min_amount iff the minimum is > 0, max_amount
\* iff the maximum is > 0, and no other key; no amount key holds 0.
ListingParamsExact ==
    loc.built = "params" =>
        LET p == loc.params IN
        /\ Keys(p) \subseteq {"page", "limit", "type", "isFraud", "min_amount", "max_amount"}
        /\ {"page", "limit"} \subseteq Keys(p)
        /\ p["page"] = w.page /\ p["limit"] = w.limit
        /\ ("type" \in Keys(p)) <=> (loc.selected_type # "Tous")
        /\ ("type" \in Keys(p)) => p["type"] = loc.selected_type
        /\ ("isFraud" \in Keys(p)) <=> (w.fraud \in {2, 3})
        /\ (w.fraud = 2) => p["isFraud"] = 1
        /\ (w.fraud = 3) => p["isFraud"] = 0
        /\ ("min_amount" \in Keys(p)) <=> (w.min > 0)
        /\ ("min_amount" \in Keys(p)) => p["min_amount"] = w.min
        /\ ("max_amount" \in Keys(p)) <=> (w.max > 0)
        /\ ("max_amount" \in Keys(p)) => p["max_amount"] = w.max

\* C1 witness: a listing request composed with a type, fraud = false, a minimum and
\* no maximum is on its way
ListingParamsWitness ==
    /\ loc.built = "params" /\ call.site = "tx:list" /\ pc = "wait"
    /\ loc.selected_type = "TRANSFER" /\ w.fraud = 3 /\ w.min > 0 /\ w.max = 0
    /\ Keys(loc.params) = {"page", "limit", "type", "isFraud", "min_amount"}

\* C2: the search body holds amount_range iff the minimum or the maximum is > 0, and
\* then it is the pair [minimum if > 0 else 0, maximum if > 0 else 999999999].
SearchAmountRange ==
    loc.built = "search_data" =>
        LET d == loc.params IN
        /\ ("amount_range" \in Keys(d)) <=> (w.min > 0 \/ w.max > 0)
        /\ ("amount_range" \in Keys(d)) =>
              /\ Len(d["amount_range"]) = 2
              /\ d["amount_range"][1] = (IF w.min > 0 THEN w.min ELSE 0)
              /\ d["amount_range"][2] = (IF w.max > 0 THEN w.max ELSE 999999999)

\* C2 witness: a search with a minimum and no maximum is posted with the sentinel
SearchAmountRangeWitness ==
    /\ loc.built = "search_data" /\ call.site = "search:run" /\ pc = "wait"
    /\ w.min > 0 /\ w.max = 0
    /\ inflight[1].payload["amount_range"] = <<w.min, 999999999>>

\* The parameter texts that are not JSON, and those whose root is no object
MalformedTexts ==
    { <<>>, <<"{", "invalid">>, <<"{", "\"page\"", ":", "1", ",", "}">>, <<"{", "}", "}">>,
      <<"[", "1", ",">>, <<"1", "2">> }

NonObjectTexts ==
    { <<"[", "1", ",", "2", ",", "3", "]">>, <<"[", "]">>,
      <<"[", "[", "\"abc\"", ",", "1", "]", "]">>,
      <<"null">>, <<"true">>, <<"false">>, <<"0">>, <<"5">>, <<"\"abc\"">>, <<"\"\"">> }

\* C3 (as claimed): a parameter text whose JSON root is no object is never dispatched
\* for the selected route, and the run that handled the click reports an input error.
NonObjectRootRejected ==
    (TesterClicked /\ w.text \in NonObjectTexts) =>
        /\ "tester" \notin Range(sent)
        /\ (pc = "idle" /\ run = "done") =>
              \E i \in DOMAIN msgs : msgs[i].level = "error"

\* C4: a parameter text that is not JSON is answered by the error message
\* "JSON invalide"; the handler raises nothing and calls no dispatch function.
MalformedTextRejected ==
    (TesterClicked /\ w.text \in MalformedTexts) =>
        /\ call.site # "tester"
        /\ "tester" \notin Range(sent)
        /\ pc # "ret" => (run = "exception" => call.site = "metadata")
        /\ (pc = "idle" /\ run = "done") =>
              /\ msgs # <<>>
              /\ msgs[Len(msgs)] = Msg("error", "JSON invalide", "JSONDecodeError", 0)

\* C4 witness: the run that handled the click on "{invalid" ended with the message
MalformedTextWitness ==
    /\ TesterClicked /\ w.text = <<"{", "invalid">>
    /\ pc = "idle" /\ run = "done"
    /\ msgs = <<Msg("error", "JSON invalide", "JSONDecodeError", 0)>>
    /\ sent = <<"health", "metadata">>

\* C5 (as claimed): every response with a non-2xx status is a failure of kind
\* HttpError that carries the status code.
HttpErrorForEveryNon2xx ==
    (ApiReturned /\ resp.err = "none" /\ resp.status \notin 200..299) =>
        /\ ret = PyNone
        /\ \E i \in DOMAIN msgs : msgs[i].exc = "HTTPError" /\ msgs[i].status = resp.status

\* C5 (amended): a 4xx/5xx response returns None and emits the error message of the
\* HTTPError, which carries the status code; a connection failure or timeout returns
\* None and emits the error message of that exception.  The returned value is None in
\* both cases: only the message tells them apart.
FailureClassification ==
    ApiReturned =>
        /\ (resp.err = "none" /\ resp.status \in 400..599) =>
              /\ ret = PyNone
              /\ msgs = <<Msg("error", "Erreur API", "HTTPError", resp.status)>>
        /\ (resp.err # "none") =>
              /\ ret = PyNone
              /\ msgs = <<Msg("error", "Erreur API", resp.err, 0)>>
              /\ resp.err \in {"ConnectionError", "Timeout"}

\* C5 witness: a GET answered by HTTP 500 returned None with the status in the message
FailureClassificationWitness ==
    /\ ApiReturned /\ call.fn = "get" /\ resp.status = 500
    /\ ret = PyNone /\ msgs[1].status = 500

\* C6 (as claimed): the probe returns False for a timeout, a refused connection, a
\* non-2xx response and an undecodable body.
ProbeFalseOnEveryFailure ==
    (pc = "ret" /\ call.fn = "health"
       /\ (resp.err # "none" \/ resp.status \notin 200..299 \/ resp.body = "garbage")) =>
        ret = PyBool(FALSE)

\* C6 (amended): the probe returns True iff the health endpoint answered with status
\* 200, whatever the body; for a timeout, a refused connection and any other status it
\* returns False; it raises nothing and reports no error of its own.
ProbeTrueIffStatus200 ==
    (pc = "ret" /\ call.fn = "health") =>
        /\ ret \in {PyBool(TRUE), PyBool(FALSE)}
        /\ (ret = PyBool(TRUE)) <=> (resp.err = "none" /\ resp.status = 200)
        /\ run = "running"
        /\ msgs = <<>>

\* C6 witness: the probe timed out and returned False
ProbeWitness ==
    /\ pc = "ret" /\ call.fn = "health" /\ resp.err = "Timeout" /\ ret = PyBool(FALSE)

\* The last dispatch failed with a transport error or an HTTP error status
DispatchFailed ==
    /\ call.fn \in {"get", "post"}
    /\ resp.err # "none" \/ resp.status \in 400..599

\* C7 (as claimed): the stretch of the script that follows a dispatch failed with
\* Transport or HttpError never ends the run by an unhandled exception.
FailureContained ==
    [][(pc \in {"ret", "tx_params", "search_data"} /\ DispatchFailed) => run' # "exception"]_vars

\* C8: at most one request is in flight; it belongs to the dispatch the running script is
\* blocked in; between two runs nothing is in flight.
SingleOutstandingDispatch ==
    /\ Len(inflight) <= 1
    /\ inflight # <<>> => (pc = "wait" /\ run = "running" /\ inflight[1].site = call.site
                              /\ sent[Len(sent)] = call.site)
    /\ pc = "idle" => inflight = <<>>

\* C8 witness: the fourth dispatch of one run of "Vue d'ensemble" is in flight, alone
SingleOutstandingWitness ==
    /\ Len(inflight) = 1 /\ inflight[1].site = "vue:fraud_summary"
    /\ sent = <<"health", "metadata", "vue:overview", "vue:fraud_summary">>

Count(seq, x) == Cardinality({i \in DOMAIN seq : seq[i] = x})

\* C9 (as claimed): an invocation that has gone through its library call has sent
\* exactly one request, and no call site sends twice in one run.
ExactlyOneRequestPerInvocation ==
    /\ \A i \in DOMAIN sent : Count(sent, sent[i]) = 1
    /\ (call.fn # "none" /\ pc # "call") => Count(sent, call.site) = 1

\* C10: the search body has the type key and the isFraud key, with the same values, exactly
\* when the listing parameters of the same filters have them, and never page, limit,
\* min_amount or max_amount.
ModesAgree ==
    loc.built = "search_data" =>
        \A page \in Pages : \A limit \in Range(ListingLimits) :
            LET d == loc.params
                p == ComposeListingParams(page, limit, loc.search_type,
                                          FraudFilterLabels[w.fraud], w.min, w.max)
            IN  /\ \A k \in {"type", "isFraud"} :
                      /\ (k \in Keys(d)) <=> (k \in Keys(p))
                      /\ (k \in Keys(d)) => d[k] = p[k]
                /\ Keys(d) \cap {"page", "limit", "min_amount", "max_amount"} = {}
                /\ {"page", "limit"} \subseteq Keys(p)

\* C10 witness: a search body with a type, fraud = true and an amount bound was built
ModesAgreeWitness ==
    /\ loc.built = "search_data" /\ call.site = "search:run"
    /\ loc.search_type = "PAYMENT" /\ w.fraud = 2 /\ w.max > 0
    /\ Keys(loc.params) = {"type", "isFraud", "amount_range"}

\* The registry as a run evaluates it for a category is well formed
WellFormedRoutes(routes) ==
    /\ routes # <<>>
    /\ \A i \in DOMAIN routes :
          /\ routes[i].endpoint # <<>>
          /\ \A k \in DOMAIN routes[i].endpoint : routes[i].endpoint[k] # ""
          /\ routes[i].method \in {"GET", "POST"}
          /\ routes[i].name # ""
          /\ \A j \in DOMAIN routes : routes[i].name = routes[j].name => i = j

\* C11: each of the five categories yields a non-empty route list with unique ids, a
\* non-empty endpoint and a method GET or POST for every route; the list a run works on
\* is, in content and order, the one of the chosen category on every evaluation,
\* whatever interactions came before, and the selected route is one of its entries.
RegistryWellFormed ==
    /\ Len(RouteCategories) = 5
    /\ \A c \in DOMAIN RouteCategories : WellFormedRoutes(Routes(RouteCategories[c]))
    /\ loc.routes # <<>> =>
          /\ menu = "Test des Routes"
          /\ loc.routes = Routes(RouteCategories[w.category])
          /\ WellFormedRoutes(loc.routes)
          /\ w.route \in DOMAIN loc.routes

\* C11 witness: the run that handles a click (the button was rendered by an earlier run,
\* which evaluated the registry too) evaluated the registry of "Systeme" again and
\* dispatched its second route
RegistryWitness ==
    /\ menu = "Test des Routes" /\ clicked = "tester" /\ pc = "ret"
    /\ w.category = 5 /\ w.route = 2
    /\ Len(loc.routes) = 2 /\ loc.routes[2].name = "GET /system/metadata"
    /\ call.endpoint = <<"system", "metadata">>

\* A dispatch of get_api_data / post_api_data waits for a backend that stays silent
BlockedDispatch ==
    /\ pc = "wait" /\ run = "running" /\ call.fn \in {"get", "post"}
    /\ backend = "silent" /\ inflight # <<>>

\* C12: the probe always returns, after its timeout with False when the backend stays
\* silent; get_api_data and post_api_data send their request without a timeout, and
\* when the backend stays silent no step is ever taken again: the dispatch does not
\* return, the run does not go on, and no later interaction is handled.
ProbeReturnsDispatchBlocks ==
    /\ (pc = "wait" /\ call.fn = "health") ~> (pc = "ret" /\ call.fn = "health")
    /\ [][(pc = "wait" /\ call.fn = "health" /\ backend = "silent")
            => (pc' = "ret" /\ ret' = PyBool(FALSE) /\ resp'.err = "Timeout")]_vars
    /\ [][(pc = "wait" /\ call.fn \in {"get", "post"}) => inflight[1].timeout = 0]_vars
    /\ [][~BlockedDispatch]_vars

\* C12 witness: the search request of a run whose probe returned True is in flight,
\* without a timeout, to a backend that stays silent
DispatchBlockedWitness ==
    /\ BlockedDispatch /\ call.site = "search:run"
    /\ sent = <<"health", "metadata", "search:types", "search:run">>
    /\ inflight[1].timeout = 0

\* C13 (as claimed): with a customer id entered and the profile found, the run that
\* handles the click on "Transactions emises" ("Transactions recues") dispatches
\* GET transactions/by-customer/{id} (transactions/to-customer/{id}).
CustomerTransactionsDispatched ==
    (menu = "Clients" /\ w.customer_id # "" /\ pc = "idle" /\ run = "done") =>
        /\ clicked = "emises" => "cust:by_customer" \in Range(sent)
        /\ clicked = "recues" => "cust:to_customer" \in Range(sent)

\* The route selected in the tester, as registered
SelectedRoute == Routes(RouteCategories[w.category])[w.route]

\* C14: on a click in the route tester whose parameter text decodes, the handler calls
\* one dispatch function, once: get_api_data iff the selected route's method is GET,
\* post_api_data iff it is POST, with the route's registered endpoint and with the
\* decoded value itself as query parameters / JSON body; no other dispatch follows it
\* in the run, and the tester dispatches in no other situation.
GenericRouteDispatch ==
    /\ [](call.site = "tester" =>
            /\ TesterClicked /\ JsonLoads(w.text).ok
            /\ call.fn = "get" <=> SelectedRoute.method = "GET"
            /\ call.fn = "post" <=> SelectedRoute.method = "POST"
            /\ call.endpoint = SelectedRoute.endpoint
            /\ call.params = JsonLoads(w.text).val
            /\ inflight # <<>> =>
                  /\ inflight[1].method = SelectedRoute.method
                  /\ inflight[1].url = API_BASE_URL \o SelectedRoute.endpoint
                  /\ inflight[1].payload = JsonLoads(w.text).val)
    /\ [][(pc = "decode" /\ JsonLoads(w.text).ok) => (pc' = "call" /\ call'.site = "tester")]_vars
    /\ [][(call'.site = "tester" /\ call.site # "tester") => pc = "decode"]_vars
    /\ [][call.site = "tester" => (call'.site = "tester" \/ pc' \in {"idle", "start"})]_vars
    /\ [][(TesterClicked /\ pc' = "idle" /\ run' = "done" /\ JsonLoads(w.text).ok)
            => call.site = "tester"]_vars

\* C14 witness: the body {"page": 1} is on its way to POST fraud/predict
GenericRouteDispatchWitness ==
    /\ TesterClicked /\ call.site = "tester" /\ pc = "wait"
    /\ SelectedRoute = Route("POST /fraud/predict", "POST", <<"fraud", "predict">>)
    /\ w.text = <<"{", "\"page\"", ":", "1", "}">>
    /\ call.fn = "post"
    /\ inflight[1].payload = JsonValue("object", "", PutKey(<<>>, "\"page\"", JsonScalar("1")))

\* C15: in every run the request of the probe is the first one sent and the probe is
\* called once; a run whose probe returned False stops there, with no other request
\* sent; a dispatch of get_api_data / post_api_data is entered only right after the
\* probe returned True or after another such dispatch of the same run, and nothing is
\* sent between two runs.
LivenessGate ==
    /\ [](/\ sent # <<>> => (sent[1] = "health" /\ Count(sent, "health") = 1)
          /\ run = "stopped" => (pc = "idle" /\ sent = <<"health">>)
          /\ (call.fn \in {"get", "post"} /\ pc # "idle") => (sent # <<>> /\ sent[1] = "health")
          /\ pc = "start" => sent = <<>>)
    /\ [][(pc = "ret" /\ call.fn = "health" /\ ret # PyBool(TRUE))
            => (pc' = "idle" /\ run' = "stopped" /\ sent' = sent /\ inflight' = <<>>)]_vars
    /\ [][(call'.fn \in {"get", "post"} /\ call' # call)
            => \/ pc = "ret" /\ call.fn = "health" /\ ret = PyBool(TRUE)
               \/ call.fn \in {"get", "post"} /\ pc \in {"ret", "tx_params", "search_data", "decode"}]_vars
    /\ [][pc = "idle" => (pc' = "start" /\ sent' = <<>>)]_vars

\* C15 witness: the run that handles a click in the route tester stopped after the
\* probe returned False; only the request of the probe was sent
LivenessGateWitness ==
    /\ TesterClicked /\ pc = "idle" /\ run = "stopped"
    /\ sent = <<"health">> /\ call = NoCall
    /\ msgs = <<Msg("error", "API non accessible", "", 0)>>

\* A 2xx response whose body is JSON
ParseableSuccess == resp.err = "none" /\ resp.status \in 200..299 /\ resp.body # "garbage"

\* C16 (as claimed): get_api_data / post_api_data return None with an error message
\* iff the call failed with a transport or HTTP error; every 2xx response with a JSON
\* body (null, {}, [], 0 and false included) is returned as a value other than the
\* failure marker, and the route tester reports it as a successful request.
SuccessDistinguishable ==
    /\ [](ApiReturned =>
            /\ (ret = PyNone /\ \E i \in DOMAIN msgs : msgs[i].level = "error")
                  <=> (resp.err # "none" \/ resp.status \in 400..599)
            /\ ParseableSuccess => ret # PyNone)
    /\ [][(ApiReturned /\ call.site = "tester" /\ ParseableSuccess)
            => (pc' = "idle" /\ run' = "done" /\ msgs' # <<>>
                  /\ msgs'[Len(msgs')].level = "success")]_vars

====
